---- MODULE Spec2Model ----
(***************************************************************************)
(* A model of src/app.py: the quotation web application.                   *)
(*                                                                         *)
(* State: the session cookie of each browser, the products table, the      *)
(* history file quotation_history.json, the generated documents under      *)
(* static/, the wall clock, and the last response sent.  One action per    *)
(* request handler.  Strings are tuples of one-character strings so that   *)
(* lower(), upper(), strip() and replace() are computed character by       *)
(* character.  Floats are fixed-point integers counted in 1/Unit.          *)
(***************************************************************************)
EXTENDS Integers, Sequences, FiniteSets, TLC

VARIABLES session, products, hfile, files, now, nextSeq, resp, inflight, deleted

vars == <<session, products, hfile, files, now, nextSeq, resp, inflight, deleted>>

(***************************************************************************)
(* Bounds of the model.                                                    *)
(***************************************************************************)
MaxGen == 2          \* generate_pdf calls in one behaviour
MaxTime == 1         \* the clock runs over seconds 0..MaxTime
MaxItems == 2        \* line items of a form (SpecCalc)

Clients == {1}       \* browsers, each with its own session cookie
Users == {1, 2}      \* ids of the rows of the users table
Workers == {1, 2}    \* requests in flight at once (SpecConc)

(***************************************************************************)
(* Fixed-point floats: the float x is the integer x * Unit.                *)
(***************************************************************************)
Unit == 10 * 100
Cent == Unit \div 100
GstRate == (18 * Unit) \div 100                \* the literal 0.18
SecondsPerMinute == 6 * 10
SecondsPerDay == 24 * 60 * SecondsPerMinute

\* a * b, exact when the product is a whole number of 1/Unit (the inputs of
\* the model are multiples of 0.25); split so that no step leaves 32 bits
FMul(a, b) == (a \div Unit) * b + ((a % Unit) * b) \div Unit

Abs(x) == IF x < 0 THEN -x ELSE x

Min(a, b) == IF a < b THEN a ELSE b

\* x rounded to a whole number of q's, ties to the even one (what both
\* round() and format() do with a float).
RoundHalfEven(x, q) ==
    LET f == x \div q
        r == x % q
    IN  IF 2 * r < q THEN f
        ELSE IF 2 * r > q THEN f + 1
        ELSE IF f % 2 = 0 THEN f ELSE f + 1

\* int(x) in place of round(x): the fraction is cut off
PyRoundCutsOff(x) == IF x >= 0 THEN x \div Unit ELSE 0 - ((0 - x) \div Unit)

\* round(x): a Python int
PyRound(x) == RoundHalfEven(x, Unit)

\* format(x, ",.2f"), ",.3f" and ",.0f": counted in 1/100, 1/1000 and units
Fmt2(x) == RoundHalfEven(x, Cent)
Fmt3(x) == RoundHalfEven(x, Unit \div 1000)
Fmt0(x) == RoundHalfEven(x, Unit)

(***************************************************************************)
(* Python values that are stored in the history file.                      *)
(***************************************************************************)
PyNone == [ty |-> "NoneType", v |-> 0]
PyInt(n) == [ty |-> "int", v |-> n]
PyFloat(x) == [ty |-> "float", v |-> x]

\* bool(v) is False: None, 0 and 0.0
Falsy(v) == v.ty = "NoneType" \/ v.v = 0

\* a == b on None and numbers: 1 == 1.0 holds, None equals only None
PyEq(a, b) ==
    IF a.ty = "NoneType" \/ b.ty = "NoneType" THEN a.ty = b.ty
    ELSE IF a.ty = b.ty THEN a.v = b.v
    ELSE IF a.ty = "int" THEN a.v * Unit = b.v
    ELSE a.v = b.v * Unit

\* json.dump of None / int / float: null, an integer literal, a literal
\* with a fraction part (repr of a float always has one).
JsonDumpVal(v) ==
    IF v.ty = "NoneType" THEN [lit |-> "null", v |-> 0]
    ELSE IF v.ty = "int" THEN [lit |-> "integer", v |-> v.v]
    ELSE [lit |-> "real", v |-> v.v]

\* json.load that reads every number as a float
JsonLoadValAsFloat(j) ==
    IF j.lit = "null" THEN PyNone ELSE PyFloat(j.v)

\* json.load of a literal: null -> None, no fraction part -> int, else float
JsonLoadVal(j) ==
    IF j.lit = "null" THEN PyNone
    ELSE IF j.lit = "integer" THEN PyInt(j.v)
    ELSE PyFloat(j.v)

JsonDumpList(s) == [i \in DOMAIN s |-> JsonDumpVal(s[i])]
JsonLoadList(s) == [i \in DOMAIN s |-> JsonLoadVal(s[i])]

(***************************************************************************)
(* Strings.                                                                *)
(***************************************************************************)
LowerLetters ==
    <<"a", "b", "c", "d", "e", "f", "g", "h", "i", "j", "k", "l", "m",
      "n", "o", "p", "q", "r", "s", "t", "u", "v", "w", "x", "y", "z">>
UpperLetters ==
    <<"A", "B", "C", "D", "E", "F", "G", "H", "I", "J", "K", "L", "M",
      "N", "O", "P", "Q", "R", "S", "T", "U", "V", "W", "X", "Y", "Z">>

LowerChar(c) ==
    IF \E i \in DOMAIN UpperLetters : UpperLetters[i] = c
    THEN LowerLetters[CHOOSE i \in DOMAIN UpperLetters : UpperLetters[i] = c]
    ELSE c

UpperChar(c) ==
    IF \E i \in DOMAIN LowerLetters : LowerLetters[i] = c
    THEN UpperLetters[CHOOSE i \in DOMAIN LowerLetters : LowerLetters[i] = c]
    ELSE c

StrLower(s) == [i \in DOMAIN s |-> LowerChar(s[i])]
StrUpper(s) == [i \in DOMAIN s |-> UpperChar(s[i])]

RECURSIVE LStrip(_)
LStrip(s) == IF s # <<>> /\ Head(s) = " " THEN LStrip(Tail(s)) ELSE s

RECURSIVE RStrip(_)
RStrip(s) ==
    IF s # <<>> /\ s[Len(s)] = " " THEN RStrip(SubSeq(s, 1, Len(s) - 1)) ELSE s

StrStrip(s) == RStrip(LStrip(s))

\* s.replace(" ", "_")
ReplaceSpaces(s) == [i \in DOMAIN s |-> IF s[i] = " " THEN "_" ELSE s[i]]

\* s[:n]
Prefix(s, n) == SubSeq(s, 1, Min(n, Len(s)))

sKG == <<"K", "G">>
sNOS == <<"N", "O", "S">>
sNO == <<"N", "O">>
sNOSdot == <<"N", "O", "S", ".">>
sPCS == <<"P", "C", "S">>
sPIECE == <<"P", "I", "E", "C", "E">>
sPIECES == <<"P", "I", "E", "C", "E", "S">>
sLSY001 == <<"L", "S", "Y", "/", "0", "0", "1">>

(***************************************************************************)
(* The products table and the catalog generate_pdf builds from it.         *)
(* A row is [user_id, name, unit_type]; description and price are carried  *)
(* by no computation below and are left out.  A query without ORDER BY     *)
(* returns the matching rows in an order the database chooses.             *)
(***************************************************************************)
SeqPerms(s) ==
    {[i \in DOMAIN s |-> s[p[i]]] : p \in Permutations(DOMAIN s)}

\* db.query(Product).filter(Product.user_id == user_id).all()
QueryProducts(table, user_id) ==
    SeqPerms(SelectSeq(table, LAMBDA r : r.user_id = user_id.v))

\* the dict built from each row: unit_type is (p.unit_type or "").strip().upper()
CatalogOf(rows) ==
    [i \in DOMAIN rows |->
        [name |-> rows[i].name,
         unit_type |-> StrUpper(StrStrip(rows[i].unit_type))]]

\* the lookup without .lower(): names are compared as they are
RECURSIVE LookupUnitCaseSensitive(_, _)
LookupUnitCaseSensitive(catalog, p) ==
    IF catalog = <<>> THEN <<>>
    ELSE IF Head(catalog).name = p
         THEN StrUpper(Head(catalog).unit_type)
         ELSE LookupUnitCaseSensitive(Tail(catalog), p)

\* for prod in catalog: if prod["name"].lower() == p.lower(): unit = ...; break
RECURSIVE LookupUnit(_, _)
LookupUnit(catalog, p) ==
    IF catalog = <<>> THEN <<>>
    ELSE IF StrLower(Head(catalog).name) = StrLower(p)
         THEN StrUpper(Head(catalog).unit_type)
         ELSE LookupUnit(Tail(catalog), p)

(***************************************************************************)
(* generate_pdf: the calculations and the drawn document.                  *)
(* A form is [customer_name, quotation_number, product_name, has_desc,     *)
(* description, quantity, unit_price, loading_charge,                      *)
(* transportation_charge, note]; the other text fields are only copied.    *)
(***************************************************************************)
\* description = ["" for _ in product_name] when the field is absent
DescriptionOf(form) ==
    IF form.has_desc THEN form.description
    ELSE [i \in DOMAIN form.product_name |-> <<>>]

\* sum(q * p for q, p in zip(quantity, unit_price))
RECURSIVE SumZip(_, _)
SumZip(quantity, unit_price) ==
    IF quantity = <<>> \/ unit_price = <<>> THEN 0
    ELSE FMul(Head(quantity), Head(unit_price))
         + SumZip(Tail(quantity), Tail(unit_price))

\* len(zip(product_name, description, quantity, unit_price))
ZipLen(form) ==
    Min(Min(Len(form.product_name), Len(DescriptionOf(form))),
        Min(Len(form.quantity), Len(form.unit_price)))

\* the three running totals after the first n rows of the loop
RECURSIVE Buckets(_, _, _)
Buckets(form, catalog, n) ==
    IF n = 0 THEN [total_weight |-> 0, total_nos |-> 0, total_pieces |-> 0]
    ELSE LET b == Buckets(form, catalog, n - 1)
             unit == LookupUnit(catalog, form.product_name[n])
             q == form.quantity[n]
         IN  IF unit = sKG THEN [b EXCEPT !.total_weight = @ + q]
             ELSE IF unit \in {sNOS, sNO, sNOSdot}
                  THEN [b EXCEPT !.total_nos = @ + q]
             ELSE IF unit \in {sPCS, sPIECE, sPIECES}
                  THEN [b EXCEPT !.total_pieces = @ + q]
             ELSE b

\* one drawn table row
DrawnRow(form, catalog, i) ==
    [no |-> i,
     product |-> Prefix(form.product_name[i], 18),
     desc |-> Prefix(DescriptionOf(form)[i], 30),
     qty |-> Fmt3(form.quantity[i]),
     unit |-> LookupUnit(catalog, form.product_name[i]),
     rate |-> Fmt2(form.unit_price[i]),
     amount |-> Fmt2(FMul(form.quantity[i], form.unit_price[i]))]

\* the parts of every bucket that is not zero
SummaryPartsNonZero(b) ==
    (IF b.total_weight # 0
     THEN <<[label |-> "Total Weight", value |-> Fmt3(b.total_weight)]>>
     ELSE <<>>)
    \o (IF b.total_nos # 0
        THEN <<[label |-> "Total Nos", value |-> Fmt0(b.total_nos)]>>
        ELSE <<>>)
    \o (IF b.total_pieces # 0
        THEN <<[label |-> "Total Pieces", value |-> Fmt0(b.total_pieces)]>>
        ELSE <<>>)

\* summary_parts, each part a [label, value]
SummaryParts(b) ==
    (IF b.total_weight > 0
     THEN <<[label |-> "Total Weight", value |-> Fmt3(b.total_weight)]>>
     ELSE <<>>)
    \o (IF b.total_nos > 0
        THEN <<[label |-> "Total Nos", value |-> Fmt0(b.total_nos)]>>
        ELSE <<>>)
    \o (IF b.total_pieces > 0
        THEN <<[label |-> "Total Pieces", value |-> Fmt0(b.total_pieces)]>>
        ELSE <<>>)

\* qn = str(quotation_number or "").strip(); "LSY/001" when blank
QuotationNo(form) ==
    IF StrStrip(form.quotation_number) = <<>> THEN sLSY001
    ELSE StrStrip(form.quotation_number)

\* the line showing the sum the GST is computed on
SubTotalLineWithCharges(total_amount, sub_total) == Fmt2(sub_total)

\* c.drawRightString(520, y - 10, f"{total_amount:,.2f}") beside "Sub Total:"
SubTotalLine(total_amount, sub_total) == Fmt2(total_amount)

\* every local of the calculation and what is drawn on the page
Calc(form, catalog) ==
    LET total_amount == SumZip(form.quantity, form.unit_price)
        loading_charge == form.loading_charge
        transportation_charge == form.transportation_charge
        sub_total == total_amount + loading_charge + transportation_charge
        gst_amount == FMul(sub_total, GstRate)
        grand_total == sub_total + gst_amount
        round_off == PyRound(grand_total) * Unit - grand_total
        final_total == PyRound(grand_total)
        b == Buckets(form, catalog, ZipLen(form))
    IN  [total_amount |-> total_amount,
         sub_total |-> sub_total,
         gst_amount |-> gst_amount,
         grand_total |-> grand_total,
         round_off |-> round_off,
         final_total |-> final_total,
         total_weight |-> b.total_weight,
         total_nos |-> b.total_nos,
         total_pieces |-> b.total_pieces,
         rows |-> [i \in 1..ZipLen(form) |-> DrawnRow(form, catalog, i)],
         summary |-> SummaryParts(b),
         sub_total_line |-> SubTotalLine(total_amount, sub_total),
         loading_line |-> Fmt2(loading_charge),
         transport_line |-> Fmt2(transportation_charge),
         gst_line |-> Fmt2(gst_amount),
         round_off_line |-> Fmt2(round_off),
         grand_total_line |-> Fmt2(final_total * Unit)]

(***************************************************************************)
(* The history file.  Its content is missing, not JSON ("garbage"), or a   *)
(* JSON value: a list, an object with nkeys keys, or a scalar (a number,   *)
(* null, true).  A list item is a record written by generate_pdf           *)
(* (isdict) or some other JSON value.  seq is not in the file: it numbers  *)
(* the generate_pdf call that made the record.  deleted, also not program   *)
(* state, collects the seq of the records delete_history removed.                 *)
(***************************************************************************)
HMissing == [kind |-> "missing", nkeys |-> 0, items |-> <<>>]
HGarbage == [kind |-> "garbage", nkeys |-> 0, items |-> <<>>]
HScalar == [kind |-> "scalar", nkeys |-> 0, items |-> <<>>]
HObject(n) == [kind |-> "object", nkeys |-> n, items |-> <<>>]
HList(items) == [kind |-> "list", nkeys |-> 0, items |-> items]

NonDict == [isdict |-> FALSE]

\* os.path.exists(HISTORY_FILE)
HistoryExists(hf) == hf.kind # "missing"

JsonDumpEntry(e) ==
    IF ~e.isdict THEN e
    ELSE [e EXCEPT !.total = JsonDumpVal(@),
                   !.user_id = JsonDumpVal(@),
                   !.data.loading_charge = JsonDumpVal(@),
                   !.data.transportation_charge = JsonDumpVal(@),
                   !.data.quantity = JsonDumpList(@),
                   !.data.unit_price = JsonDumpList(@)]

JsonLoadEntry(j) ==
    IF ~j.isdict THEN j
    ELSE [j EXCEPT !.total = JsonLoadVal(@),
                   !.user_id = JsonLoadVal(@),
                   !.data.loading_charge = JsonLoadVal(@),
                   !.data.transportation_charge = JsonLoadVal(@),
                   !.data.quantity = JsonLoadList(@),
                   !.data.unit_price = JsonLoadList(@)]

\* json.dump(history, f) of a Python list
JsonDump(items) == HList([i \in DOMAIN items |-> JsonDumpEntry(items[i])])

\* try: history = json.load(f)  except Exception: history = []
\* (the file exists); the result is a Python list, dict or scalar
ReadHistory(hf) ==
    IF hf.kind = "garbage" THEN HList(<<>>)
    ELSE [hf EXCEPT !.items = [i \in DOMAIN hf.items |-> JsonLoadEntry(hf.items[i])]]

\* len(history) of a list or a dict
PyLen(py) == IF py.kind = "object" THEN py.nkeys ELSE Len(py.items)

\* history[index] of a list does not raise IndexError
PyInRange(n, index) == -n <= index /\ index < n

\* the 1-based position Python's history[index] reads
PyPos(n, index) == IF index < 0 THEN n + index + 1 ELSE index + 1

\* del history[index] left out
RemoveAtForgotten(s, k) == s

\* del s[k]
RemoveAt(s, k) == SubSeq(s, 1, k - 1) \o SubSeq(s, k + 1, Len(s))

(***************************************************************************)
(* The documents under static/: a set of [name, writer], one per name;     *)
(* writer numbers the generate_pdf call whose document the file holds.     *)
(***************************************************************************)
NoFile == [safe_name |-> <<>>, stamp |-> -1]

\* static/quotation_{safe_name}_{%d-%m-%Y_%H%M%S}.pdf, its basename
PdfName(customer_name, t) ==
    [safe_name |-> ReplaceSpaces(customer_name), stamp |-> t]

\* os.path.exists(os.path.join("static", name))
FileExists(fs, name) == \E f \in fs : f.name = name

\* canvas.save(): creates the file or overwrites the one of that name
SaveFile(fs, name, writer) ==
    {f \in fs : f.name # name} \cup {[name |-> name, writer |-> writer]}

\* the file left where it is
RemoveFileKept(fs, name) == fs

\* os.remove
RemoveFile(fs, name) == {f \in fs : f.name # name}

(***************************************************************************)
(* Responses: the handler, the browser, the kind of answer and what it     *)
(* carries.  entry is the record generate_pdf built, kept to compare it    *)
(* with what is read back.                                                 *)
(***************************************************************************)
NoCalc == Calc([customer_name |-> <<>>, quotation_number |-> <<>>,
                product_name |-> <<>>, has_desc |-> FALSE, description |-> <<>>,
                quantity |-> <<>>, unit_price |-> <<>>, loading_charge |-> 0,
                transportation_charge |-> 0, note |-> <<>>], <<>>)

NoResp ==
    [op |-> "none", client |-> 0, status |-> "none", index |-> 0,
     history |-> <<>>, pdf_name |-> NoFile, entry_seq |-> 0,
     entry |-> NonDict, calc |-> NoCalc, catalog |-> <<>>]

Reply(op, client, status) ==
    [NoResp EXCEPT !.op = op, !.client = client, !.status = status]

NoSession == [logged_in |-> FALSE, user_id |-> PyNone]

(***************************************************************************)
(* generate_pdf                                                            *)
(***************************************************************************)
HistoryEntry(form, calc, user_id, t, seq) ==
    [isdict |-> TRUE,
     seq |-> seq,
     quotation_no |-> QuotationNo(form),
     customer_name |-> form.customer_name,
     date |-> t \div SecondsPerDay,
     file |-> PdfName(form.customer_name, t),
     total |-> PyInt(calc.final_total),
     user_id |-> user_id,
     last_downloaded |-> -1,
     data |-> [loading_charge |-> PyFloat(form.loading_charge),
               transportation_charge |-> PyFloat(form.transportation_charge),
               product_name |-> form.product_name,
               description |-> DescriptionOf(form),
               quantity |-> [i \in DOMAIN form.quantity |-> PyFloat(form.quantity[i])],
               unit_price |-> [i \in DOMAIN form.unit_price |-> PyFloat(form.unit_price[i])],
               note |-> form.note]]

\* the catalogs the query of lines 486-498 can give
Catalogs(table, user_id) ==
    IF Falsy(user_id) THEN {<<>>}
    ELSE {CatalogOf(rows) : rows \in QueryProducts(table, user_id)}

\* the new record put after the records read
InsertEntryAtEnd(hf, entry) ==
    LET history == IF HistoryExists(hf) THEN ReadHistory(hf) ELSE HList(<<>>)
    IN  IF history.kind # "list" THEN [error |-> TRUE, file |-> hf]
        ELSE [error |-> FALSE, file |-> JsonDump(history.items \o <<entry>>)]

\* history = [] / json.load; history.insert(0, history_entry): the list to be
\* written, or an error when the loaded value is not a list
InsertEntry(hf, entry) ==
    LET history == IF HistoryExists(hf) THEN ReadHistory(hf) ELSE HList(<<>>)
    IN  IF history.kind # "list" THEN [error |-> TRUE, file |-> hf]
        ELSE [error |-> FALSE, file |-> JsonDump(<<entry>> \o history.items)]

\* the write skipped when the file changed since it was read
WriteHistoryIfUnchanged(plan, hf) ==
    IF plan.write /\ hf = plan.read THEN plan.file ELSE hf

\* with open(HISTORY_FILE, "w") as f: json.dump(history, f): the whole file
\* is replaced by the list the handler holds, on the paths that write
WriteHistory(plan, hf) == IF plan.write THEN plan.file ELSE hf

\* what one generate_pdf call does: the document saved, the file content it
\* will write (from the history it read in hf) and its response
GeneratePlan(user_id, form, catalog, hf, fs, t, seq) ==
    LET calc == Calc(form, catalog)
        entry == HistoryEntry(form, calc, user_id, t, seq)
        ins == InsertEntry(hf, entry)
    IN  [files |-> SaveFile(fs, entry.file, seq),
         read |-> hf,
         write |-> ~ins.error,
         file |-> ins.file,
         gone |-> {},
         resp |-> [NoResp EXCEPT !.op = "generate_pdf",
                                 !.status = IF ins.error THEN "error500" ELSE "page",
                                 !.pdf_name = entry.file,
                                 !.entry_seq = seq,
                                 !.entry = entry,
                                 !.calc = calc,
                                 !.catalog = catalog]]

GeneratePdf(c, form) ==
    /\ \E catalog \in Catalogs(products, session[c].user_id) :
         LET plan == GeneratePlan(session[c].user_id, form, catalog,
                                  hfile, files, now, nextSeq)
         IN  /\ files' = plan.files
             /\ hfile' = WriteHistory(plan, hfile)
             /\ resp' = [plan.resp EXCEPT !.client = c]
    /\ nextSeq' = nextSeq + 1
    /\ UNCHANGED <<session, products, now, inflight, deleted>>

(***************************************************************************)
(* view_history                                                            *)
(***************************************************************************)
\* the list without its filter: [h for h in all_history]
ListForUserUnfiltered(hf, user_id) ==
    IF ~HistoryExists(hf) THEN [error |-> FALSE, list |-> <<>>]
    ELSE [error |-> FALSE, list |-> ReadHistory(hf).items]

\* [h for h in all_history if h.get("user_id") == user_id]
ListForUser(hf, user_id) ==
    IF ~HistoryExists(hf) THEN [error |-> FALSE, list |-> <<>>]
    ELSE LET all_history == ReadHistory(hf)
         IN  IF all_history.kind = "scalar"
                \/ (all_history.kind = "object" /\ all_history.nkeys > 0)
                \/ \E i \in DOMAIN all_history.items : ~all_history.items[i].isdict
             THEN [error |-> TRUE, list |-> <<>>]
             ELSE [error |-> FALSE,
                   list |-> SelectSeq(all_history.items,
                                      LAMBDA h : PyEq(h.user_id, user_id))]

ViewHistory(c) ==
    /\ resp' =
         IF Falsy(session[c].user_id) THEN Reply("view_history", c, "redirect_login")
         ELSE LET r == ListForUser(hfile, session[c].user_id)
              IN  IF r.error THEN Reply("view_history", c, "error500")
                  ELSE [Reply("view_history", c, "page") EXCEPT !.history = r.list]
    /\ UNCHANGED <<session, products, hfile, files, now, nextSeq, inflight, deleted>>

(***************************************************************************)
(* delete_history                                                          *)
(***************************************************************************)
\* what one delete_history call does with the history it read in hf
DeletePlan(index, hf, fs) ==
    LET keep(status) == [files |-> fs, read |-> hf, write |-> FALSE, file |-> hf,
                         gone |-> {},
                         resp |-> [Reply("delete_history", 0, status)
                                     EXCEPT !.index = index]]
        history == ReadHistory(hf)
        n == PyLen(history)
    IN  IF ~HistoryExists(hf) THEN keep("redirect_history")
        ELSE IF history.kind = "scalar" THEN keep("error500")    \* len(): TypeError
        ELSE IF index >= n THEN keep("redirect_history")
        ELSE IF history.kind = "object" THEN keep("error500")    \* KeyError
        ELSE IF ~PyInRange(n, index) THEN keep("error500")       \* IndexError
        ELSE LET entry == history.items[PyPos(n, index)]
             IN  IF ~entry.isdict THEN keep("error500")          \* AttributeError
                 ELSE [files |-> IF FileExists(fs, entry.file)
                                 THEN RemoveFile(fs, entry.file) ELSE fs,
                       read |-> hf,
                       write |-> TRUE,
                       file |-> JsonDump(RemoveAt(history.items, PyPos(n, index))),
                       gone |-> {entry.seq},
                       resp |-> [Reply("delete_history", 0, "redirect_history")
                                   EXCEPT !.index = index,
                                          !.entry_seq = entry.seq,
                                          !.entry = entry]]

DeleteHistory(c, index) ==
    LET plan == DeletePlan(index, hfile, files)
    IN  /\ files' = plan.files
        /\ hfile' = WriteHistory(plan, hfile)
        /\ resp' = [plan.resp EXCEPT !.client = c]
        /\ deleted' = deleted \cup plan.gone
        /\ UNCHANGED <<session, products, now, nextSeq, inflight>>

(***************************************************************************)
(* edit_pdf                                                                *)
(***************************************************************************)
EditPdfReply(index, hf, fs) ==
    LET reply(status) == [Reply("edit_pdf", 0, status) EXCEPT !.index = index]
        history == ReadHistory(hf)
        n == PyLen(history)
    IN  IF ~HistoryExists(hf) THEN reply("redirect_history")
        ELSE IF history.kind = "scalar" THEN reply("error500")
        ELSE IF index >= n THEN reply("redirect_history")
        ELSE IF history.kind = "object" THEN reply("error500")
        ELSE IF ~PyInRange(n, index) THEN reply("error500")
        ELSE LET entry == history.items[PyPos(n, index)]
             IN  IF ~entry.isdict THEN reply("error500")
                 ELSE IF ~FileExists(fs, entry.file)
                      THEN [reply("inline_message") EXCEPT !.pdf_name = entry.file,
                                                           !.entry_seq = entry.seq]
                      ELSE [reply("page") EXCEPT !.pdf_name = entry.file,
                                                 !.entry_seq = entry.seq]

EditPdf(c, index) ==
    /\ resp' = [EditPdfReply(index, hfile, files) EXCEPT !.client = c]
    /\ UNCHANGED <<session, products, hfile, files, now, nextSeq, inflight, deleted>>

(***************************************************************************)
(* edit_quotation                                                          *)
(***************************************************************************)
\* history = [] unless the file holds a JSON list
SafeHistory(hf) ==
    IF HistoryExists(hf) /\ ReadHistory(hf).kind = "list"
    THEN ReadHistory(hf).items ELSE <<>>

EditQuotationReply(index, hf, table, user_id) ==
    LET reply(status) == [Reply("edit_quotation", 0, status) EXCEPT !.index = index]
        history == SafeHistory(hf)
    IN  IF index < 0 \/ index >= Len(history) THEN {reply("redirect_history")}
        ELSE LET entry == history[index + 1]
             IN  {[reply("page") EXCEPT
                      !.entry_seq = IF entry.isdict THEN entry.seq ELSE 0,
                      !.catalog = catalog] :
                   catalog \in Catalogs(table, user_id)}

EditQuotation(c, index) ==
    /\ \E r \in EditQuotationReply(index, hfile, products, session[c].user_id) :
         resp' = [r EXCEPT !.client = c]
    /\ UNCHANGED <<session, products, hfile, files, now, nextSeq, inflight, deleted>>

(***************************************************************************)
(* download_pdf                                                            *)
(***************************************************************************)
\* for h in history: if h.get("file") == pdf_name: ...; break
\* 0: no record matches; -1: h.get raised first; else the position stamped
RECURSIVE FirstWithFile(_, _, _)
FirstWithFile(items, pdf_name, i) ==
    IF i > Len(items) THEN 0
    ELSE IF ~items[i].isdict THEN -1
    ELSE IF items[i].file = pdf_name THEN i
    ELSE FirstWithFile(items, pdf_name, i + 1)

DownloadPlan(pdf_name, hf, fs, t) ==
    LET keep(status) == [files |-> fs, read |-> hf, write |-> FALSE, file |-> hf,
                         gone |-> {},
                         resp |-> [Reply("download_pdf", 0, status)
                                     EXCEPT !.pdf_name = pdf_name]]
        history == ReadHistory(hf)
        k == FirstWithFile(history.items, pdf_name, 1)
    IN  IF ~FileExists(fs, pdf_name) THEN keep("error_json")
        ELSE IF ~HistoryExists(hf) THEN keep("file")
        ELSE IF history.kind = "scalar" THEN keep("error500")   \* not iterable
        ELSE IF history.kind = "object"
             THEN keep(IF history.nkeys > 0 THEN "error500" ELSE "file")
        ELSE IF k = -1 THEN keep("error500")
        ELSE IF k = 0 THEN keep("file")
        ELSE [files |-> fs,
              read |-> hf,
              write |-> TRUE,
              gone |-> {},
              file |-> JsonDump([history.items EXCEPT
                         ![k].last_downloaded = t \div SecondsPerMinute]),
              resp |-> [Reply("download_pdf", 0, "file")
                          EXCEPT !.pdf_name = pdf_name,
                                 !.entry_seq = history.items[k].seq]]

DownloadPdf(c, pdf_name) ==
    LET plan == DownloadPlan(pdf_name, hfile, files, now)
    IN  /\ hfile' = WriteHistory(plan, hfile)
        /\ resp' = [plan.resp EXCEPT !.client = c]
        /\ UNCHANGED <<session, products, files, now, nextSeq, inflight, deleted>>

(***************************************************************************)
(* login, logout, home and the catalog handlers                            *)
(***************************************************************************)
\* user: the users row the credentials match, 0 when none does
LoginUser(c, user) ==
    /\ session' = IF user = 0 THEN session
                  ELSE [session EXCEPT ![c] = [logged_in |-> TRUE,
                                               user_id |-> PyInt(user)]]
    /\ resp' = Reply("login_user", c, IF user = 0 THEN "page" ELSE "redirect_home")
    /\ UNCHANGED <<products, hfile, files, now, nextSeq, inflight, deleted>>

Logout(c) ==
    /\ session' = [session EXCEPT ![c] = NoSession]
    /\ resp' = Reply("logout", c, "redirect_login")
    /\ UNCHANGED <<products, hfile, files, now, nextSeq, inflight, deleted>>

Home(c) ==
    /\ resp' = Reply("home", c, IF ~session[c].logged_in THEN "redirect_login"
                                ELSE "page")
    /\ UNCHANGED <<session, products, hfile, files, now, nextSeq, inflight, deleted>>

\* get_products and get_form: the page with the user's rows
CatalogPage(op, c) ==
    /\ \E catalog \in Catalogs(products, session[c].user_id) :
         resp' = IF Falsy(session[c].user_id) THEN Reply(op, c, "redirect_login")
                 ELSE [Reply(op, c, "page") EXCEPT !.catalog = catalog]
    /\ UNCHANGED <<session, products, hfile, files, now, nextSeq, inflight, deleted>>

GetProducts(c) == CatalogPage("get_products", c)

GetForm(c) == CatalogPage("get_form", c)

AddProduct(c, name, unit_type) ==
    /\ IF Falsy(session[c].user_id)
       THEN /\ products' = products
            /\ resp' = Reply("add_product", c, "redirect_login")
       ELSE /\ products' = Append(products, [user_id |-> session[c].user_id.v,
                                             name |-> name,
                                             unit_type |-> unit_type])
            /\ resp' = Reply("add_product", c, "redirect_products")
    /\ UNCHANGED <<session, hfile, files, now, nextSeq, inflight, deleted>>

\* the rows .filter(Product.name == name, Product.user_id == user_id) matches;
\* .first() takes one of them
MatchingRows(table, name, user_id) ==
    {i \in DOMAIN table : table[i].name = name /\ table[i].user_id = user_id.v}

UpdateProduct(c, old_name, name, unit_type) ==
    /\ IF Falsy(session[c].user_id)
       THEN /\ products' = products
            /\ resp' = Reply("update_product", c, "redirect_login")
       ELSE /\ IF MatchingRows(products, old_name, session[c].user_id) = {}
               THEN products' = products
               ELSE \E i \in MatchingRows(products, old_name, session[c].user_id) :
                      products' = [products EXCEPT ![i].name = name,
                                                   ![i].unit_type = unit_type]
            /\ resp' = Reply("update_product", c, "redirect_products")
    /\ UNCHANGED <<session, hfile, files, now, nextSeq, inflight, deleted>>

DeleteProduct(c, name) ==
    /\ IF Falsy(session[c].user_id)
       THEN /\ products' = products
            /\ resp' = Reply("delete_product", c, "redirect_login")
       ELSE /\ IF MatchingRows(products, name, session[c].user_id) = {}
               THEN products' = products
               ELSE \E i \in MatchingRows(products, name, session[c].user_id) :
                      products' = RemoveAt(products, i)
            /\ resp' = Reply("delete_product", c, "redirect_products")
    /\ UNCHANGED <<session, hfile, files, now, nextSeq, inflight, deleted>>

\* a second passes
Tick ==
    /\ now < MaxTime
    /\ now' = now + 1
    /\ resp' = Reply("tick", 0, "none")
    /\ UNCHANGED <<session, products, hfile, files, nextSeq, inflight, deleted>>

(***************************************************************************)
(* The requests of the model.                                              *)
(***************************************************************************)
sBolt == <<"B", "o", "l", "t">>
sbolt == <<"b", "o", "l", "t">>
sPlate == <<"P", "l", "a", "t", "e">>
sAB == <<"A", " ", "B">>
sC == <<"C">>

CustomerNames == {sAB, sC}

\* a form with one line: 2 x 50.00
BaseForm(customer_name) ==
    [customer_name |-> customer_name,
     quotation_number |-> <<" ">>,
     product_name |-> <<sBolt>>,
     has_desc |-> FALSE,
     description |-> <<>>,
     quantity |-> <<2 * Unit>>,
     unit_price |-> <<50 * Unit>>,
     loading_charge |-> 0,
     transportation_charge |-> 0,
     note |-> <<>>]

Forms == {BaseForm(n) : n \in CustomerNames}

Indexes == (0 - MaxGen - 1)..MaxGen

PdfNames == {PdfName(n, t) : n \in CustomerNames, t \in 0..MaxTime}

ProductNames == {sBolt, sbolt}

UnitTypes == {<<"k", "g">>, <<"N", "o", "s">>}

Idle == [op |-> "idle"]

Init ==
    /\ session = [c \in Clients |-> NoSession]
    /\ products = <<>>
    /\ hfile = HMissing
    /\ files = {}
    /\ now = 0
    /\ nextSeq = 1
    /\ resp = NoResp
    /\ inflight = [w \in Workers |-> Idle]
    /\ deleted = {}

\* the history log and the documents: every handler that reads or writes them
Next ==
    \/ \E c \in Clients, u \in Users \cup {0} : LoginUser(c, u)
    \/ \E c \in Clients : Logout(c)
    \/ \E c \in Clients, form \in Forms : nextSeq <= MaxGen /\ GeneratePdf(c, form)
    \/ \E c \in Clients : ViewHistory(c)
    \/ \E c \in Clients, i \in Indexes : DeleteHistory(c, i)
    \/ \E c \in Clients, i \in Indexes : EditQuotation(c, i)
    \/ \E c \in Clients, i \in Indexes : EditPdf(c, i)
    \/ \E c \in Clients, n \in PdfNames : DownloadPdf(c, n)
    \/ Tick

Spec == Init /\ [][Next]_vars

(***************************************************************************)
(* Every handler, on small inputs: the catalog handlers too.               *)
(***************************************************************************)
MaxProducts == 1     \* rows of the products table (SpecAuth)

NextAuth ==
    \/ \E c \in Clients, u \in Users : LoginUser(c, u)
    \/ \E c \in Clients : Logout(c)
    \/ \E c \in Clients : Home(c)
    \/ \E c \in Clients : GetProducts(c)
    \/ \E c \in Clients : GetForm(c)
    \/ \E c \in Clients, n \in ProductNames, u \in UnitTypes :
         Len(products) < MaxProducts /\ AddProduct(c, n, u)
    \/ \E c \in Clients, o \in ProductNames, n \in ProductNames, u \in UnitTypes :
         UpdateProduct(c, o, n, u)
    \/ \E c \in Clients, n \in ProductNames : DeleteProduct(c, n)
    \/ \E c \in Clients : nextSeq <= 1 /\ GeneratePdf(c, BaseForm(sC))
    \/ \E c \in Clients : ViewHistory(c)
    \/ \E c \in Clients : DeleteHistory(c, 0)
    \/ \E c \in Clients : EditQuotation(c, 0)
    \/ \E c \in Clients : EditPdf(c, 0)
    \/ \E c \in Clients : DownloadPdf(c, PdfName(sC, 0))

SpecAuth == Init /\ [][NextAuth]_vars

(***************************************************************************)
(* The history file in any state it can be found in: written by someone    *)
(* else, cut short, or emptied.                                            *)
(***************************************************************************)
FileStates ==
    {HMissing, HGarbage, HScalar, HObject(0), HObject(1),
     HList(<<>>), HList(<<NonDict>>)}

InitFile ==
    /\ session = [c \in Clients |-> NoSession]
    /\ products = <<>>
    /\ hfile \in FileStates
    /\ files = {}
    /\ now = 0
    /\ nextSeq = 1
    /\ resp = NoResp
    /\ inflight = [w \in Workers |-> Idle]
    /\ deleted = {}

NextFile ==
    \/ \E c \in Clients, u \in Users : LoginUser(c, u)
    \/ \E c \in Clients : nextSeq <= 1 /\ GeneratePdf(c, BaseForm(sC))
    \/ \E c \in Clients : ViewHistory(c)
    \/ \E c \in Clients, i \in {-1, 0} : DeleteHistory(c, i)
    \/ \E c \in Clients, i \in {-1, 0} : EditQuotation(c, i)
    \/ \E c \in Clients, i \in {-1, 0} : EditPdf(c, i)
    \/ \E c \in Clients : DownloadPdf(c, PdfName(sC, 0))

SpecFile == InitFile /\ [][NextFile]_vars

(***************************************************************************)
(* The calculation on many forms and catalogs: one generate_pdf call from  *)
(* a state with a products table and a session, logged in or not.          *)
(* Amounts are multiples of 0.25, so that every product and the 18% are    *)
(* whole numbers of 1/Unit.                                                *)
(***************************************************************************)
Half == Unit \div 2
Quarter == Unit \div 4

Row(user_id, name, unit_type) ==
    [user_id |-> user_id, name |-> name, unit_type |-> unit_type]

skg == <<" ", "k", "g", " ">>
sNos == <<"N", "o", "s">>
spcs == <<"p", "c", "s">>
sPiece == <<"P", "i", "e", "c", "e">>
smtr == <<"m", "t", "r">>
sNut == <<"N", "u", "t">>

CalcUnits == {skg, sNos, sNO, sNOSdot, spcs, sPiece, sPIECES, smtr, <<>>}

CalcTables ==
    {<<>>}
    \cup {<<Row(1, sbolt, u)>> : u \in CalcUnits}
    \cup {<<Row(1, sBolt, skg), Row(1, sPlate, sNos)>>,
          <<Row(1, sbolt, skg), Row(1, sBolt, spcs)>>,
          <<Row(2, sBolt, skg), Row(1, sPlate, smtr)>>}

Line(product_name, quantity, unit_price) ==
    [product_name |-> product_name, quantity |-> quantity,
     unit_price |-> unit_price]

CalcLines ==
    {Line(sBolt, Half, 50 * Unit), Line(sBolt, 0 - Unit, 50 * Unit),
     Line(sPlate, 2 * Unit, 50 * Unit), Line(sNut, 2 * Unit, 50 * Unit),
     Line(sBolt, Half, 25 * Unit), Line(sBolt, 2 * Unit, Half),
     Line(sBolt, 10 * Unit, 50 * Unit), Line(sPlate, 3 * Unit, 50 * Unit)}

CalcCharges == {<<0, 0>>, <<Quarter, 10 * Unit>>}

FormOf(lines, charges) ==
    [customer_name |-> sC,
     quotation_number |-> <<"Q", "1">>,
     product_name |-> [i \in DOMAIN lines |-> lines[i].product_name],
     has_desc |-> FALSE,
     description |-> <<>>,
     quantity |-> [i \in DOMAIN lines |-> lines[i].quantity],
     unit_price |-> [i \in DOMAIN lines |-> lines[i].unit_price],
     loading_charge |-> charges[1],
     transportation_charge |-> charges[2],
     note |-> <<>>]

CalcForms ==
    {FormOf(lines, ch) :
        lines \in UNION {[1..n -> CalcLines] : n \in 1..MaxItems},
        ch \in CalcCharges}

InitCalc ==
    /\ session \in [Clients -> {NoSession, [logged_in |-> TRUE, user_id |-> PyInt(1)]}]
    /\ products \in CalcTables
    /\ hfile = HMissing
    /\ files = {}
    /\ now = 0
    /\ nextSeq = 1
    /\ resp = NoResp
    /\ inflight = [w \in Workers |-> Idle]
    /\ deleted = {}

NextCalc ==
    \E c \in Clients, form \in CalcForms : nextSeq <= 1 /\ GeneratePdf(c, form)

SpecCalc == InitCalc /\ [][NextCalc]_vars

(***************************************************************************)
(* Requests served at the same time.  A handler that changes the history   *)
(* file reads it, works on its own copy and writes the whole file back;    *)
(* nothing keeps another request from running between the read and the     *)
(* write.  Begin is the handler up to its read (and what it does to the    *)
(* documents), Commit its write and its response.                          *)
(***************************************************************************)
Busy(w) == inflight[w].op # "idle"

Begin(w, c, plan) ==
    /\ ~Busy(w)
    /\ files' = plan.files
    /\ inflight' = [inflight EXCEPT ![w] =
                       [op |-> plan.resp.op, read |-> plan.read,
                        write |-> plan.write, file |-> plan.file,
                        gone |-> plan.gone,
                        resp |-> [plan.resp EXCEPT !.client = c]]]

Commit(w, op) ==
    /\ inflight[w].op = op
    /\ hfile' = WriteHistory(inflight[w], hfile)
    /\ resp' = inflight[w].resp
    /\ deleted' = deleted \cup inflight[w].gone
    /\ inflight' = [inflight EXCEPT ![w] = Idle]
    /\ UNCHANGED <<session, products, files, now, nextSeq>>

GenerateBegin(w, c, form) ==
    /\ \E catalog \in Catalogs(products, session[c].user_id) :
         Begin(w, c, GeneratePlan(session[c].user_id, form, catalog,
                                  hfile, files, now, nextSeq))
    /\ nextSeq' = nextSeq + 1
    /\ UNCHANGED <<session, products, hfile, now, resp, deleted>>

GenerateCommit(w) == Commit(w, "generate_pdf")

DeleteBegin(w, c, index) ==
    /\ Begin(w, c, DeletePlan(index, hfile, files))
    /\ UNCHANGED <<session, products, hfile, now, nextSeq, resp, deleted>>

DeleteCommit(w) == Commit(w, "delete_history")

DownloadBegin(w, c, pdf_name) ==
    /\ Begin(w, c, DownloadPlan(pdf_name, hfile, files, now))
    /\ UNCHANGED <<session, products, hfile, now, nextSeq, resp, deleted>>

DownloadCommit(w) == Commit(w, "download_pdf")

\* the requests of the racing clients: the two newest positions of the log and
\* the documents of this second
ConcIndexes == 0..1

ConcPdfNames == {PdfName(n, 0) : n \in CustomerNames}

InitConc ==
    /\ session = [c \in Clients |-> [logged_in |-> TRUE, user_id |-> PyInt(1)]]
    /\ products = <<>>
    /\ hfile = HMissing
    /\ files = {}
    /\ now = 0
    /\ nextSeq = 1
    /\ resp = NoResp
    /\ inflight = [w \in Workers |-> Idle]
    /\ deleted = {}

NextConc ==
    \/ \E w \in Workers, c \in Clients, form \in Forms :
         nextSeq <= MaxGen /\ GenerateBegin(w, c, form)
    \/ \E w \in Workers : GenerateCommit(w)
    \/ \E w \in Workers, c \in Clients, i \in ConcIndexes : DeleteBegin(w, c, i)
    \/ \E w \in Workers : DeleteCommit(w)
    \/ \E w \in Workers, c \in Clients, n \in ConcPdfNames : DownloadBegin(w, c, n)
    \/ \E w \in Workers : DownloadCommit(w)
    \/ \E c \in Clients : ViewHistory(c)

SpecConc == InitConc /\ [][NextConc]_vars

(***************************************************************************)
(* The history log under its three writers, run one at a time: long enough *)
(* for a record to be removed from between two others.                     *)
(***************************************************************************)
MaxLog == 3

LogIndexes == (0 - MaxLog - 1)..MaxLog

NextLog ==
    \/ \E c \in Clients, u \in Users : LoginUser(c, u)
    \/ \E c \in Clients, form \in Forms : nextSeq <= MaxLog /\ GeneratePdf(c, form)
    \/ \E c \in Clients, i \in LogIndexes : DeleteHistory(c, i)
    \/ \E c \in Clients, n \in ConcPdfNames : DownloadPdf(c, n)

SpecLog == Init /\ [][NextLog]_vars

(***************************************************************************)
(* generate_pdf on forms whose repeated fields were not sent the same      *)
(* number of times: product_name, description, quantity and unit_price are *)
(* four lists that the request fills independently.                        *)
(***************************************************************************)
SeqsUpTo(S, n) == UNION {[1..k -> S] : k \in 1..n}

ZipForms ==
    {[BaseForm(sC) EXCEPT !.product_name = names,
                          !.has_desc = d.has_desc,
                          !.description = d.description,
                          !.quantity = quantity,
                          !.unit_price = unit_price] :
        names \in SeqsUpTo({sBolt, sPlate}, MaxItems),
        d \in {[has_desc |-> FALSE, description |-> <<>>]}
              \cup {[has_desc |-> TRUE, description |-> ds] :
                       ds \in SeqsUpTo({<<>>}, MaxItems)},
        quantity \in SeqsUpTo({Unit, 2 * Unit}, MaxItems),
        unit_price \in SeqsUpTo({50 * Unit}, MaxItems)}

InitZip ==
    /\ session \in [Clients -> {NoSession, [logged_in |-> TRUE, user_id |-> PyInt(1)]}]
    /\ products \in {<<>>, <<Row(1, sBolt, skg)>>}
    /\ hfile = HMissing
    /\ files = {}
    /\ now = 0
    /\ nextSeq = 1
    /\ resp = NoResp
    /\ inflight = [w \in Workers |-> Idle]
    /\ deleted = {}

NextZip ==
    \E c \in Clients, form \in ZipForms : nextSeq <= 1 /\ GeneratePdf(c, form)

SpecZip == InitZip /\ [][NextZip]_vars

(***************************************************************************)
(* Properties.                                                             *)
(***************************************************************************)
Range(s) == {s[i] : i \in DOMAIN s}

LogItems == IF hfile.kind = "list" THEN hfile.items ELSE <<>>

\* C1: for a logged-in user, view_history returns only records whose
\* user_id is that user's id: none of another user, none without user id.
C1_ViewReturnsOnlyOwn ==
    (resp.op = "view_history" /\ resp.status = "page")
    => \A h \in Range(resp.history) :
         /\ h.user_id.ty = "int"
         /\ session[resp.client].user_id.ty = "int"
         /\ h.user_id.v = session[resp.client].user_id.v

\* a user's own record is listed while the log also holds a record that is
\* not theirs
C1_Witness ==
    /\ resp.op = "view_history"
    /\ resp.status = "page"
    /\ Len(resp.history) = 1
    /\ Len(LogItems) = 2
    /\ \E h \in Range(LogItems) : h.user_id.lit = "null"

\* C2: once delete_history has removed a record, no later view_history
\* returns it, whoever asks.
C2_DeletedNeverListed ==
    resp.op = "view_history"
    => \A h \in Range(resp.history) : h.seq \notin deleted

\* a record has been deleted and a user lists a history that is not empty
C2_Witness ==
    /\ resp.op = "view_history"
    /\ resp.status = "page"
    /\ Len(resp.history) = 1
    /\ deleted # {}

\* the log's length as edit_quotation, edit_pdf and delete_history see it
LogLen == Len(LogItems)

IndexedOps == {"edit_quotation", "edit_pdf", "delete_history"}

\* C4: with an index out of range (index >= length or index < 0), each of
\* edit_quotation, edit_pdf and delete_history answers with a redirect to
\* the history list or an inline message, raises nothing, and leaves the log
\* and the stored files as they were.
C4_OutOfRangeIsHarmless ==
    [][(/\ resp'.op \in IndexedOps
        /\ (resp'.index >= LogLen \/ resp'.index < 0))
       => (/\ resp'.status \in {"redirect_history", "inline_message"}
           /\ hfile' = hfile
           /\ files' = files)]_vars

\* C6: when a logged-in user generates a quotation and then lists their
\* history, the list's first record is the record generate_pdf built, equal
\* in every field and in its line-item snapshot.
C6_RoundTrip ==
    [][(/\ resp.op = "generate_pdf"
        /\ resp.status = "page"
        /\ ~Falsy(session[resp.client].user_id)
        /\ resp'.op = "view_history"
        /\ resp'.client = resp.client)
       => (/\ resp'.status = "page"
           /\ resp'.history # <<>>
           /\ resp'.history[1] = resp.entry)]_vars

\* a user lists their history and its first record is the one made by the
\* latest generate_pdf call
C6_Witness ==
    /\ resp.op = "view_history"
    /\ resp.status = "page"
    /\ resp.history # <<>>
    /\ resp.history[1].seq = nextSeq - 1
    /\ resp.history[1].total = PyInt(118)
    /\ resp.history[1].data.quantity = <<PyFloat(2 * Unit)>>

\* C10: every record of the log has its own stored document: the file it
\* names exists, holds the document written for that record, and is named
\* by no other record.
C10_EachRecordKeepsItsDocument ==
    \A i \in DOMAIN LogItems :
        /\ \E f \in files : f.name = LogItems[i].file /\ f.writer = LogItems[i].seq
        /\ \A j \in DOMAIN LogItems : i # j => LogItems[i].file # LogItems[j].file

GatedOps ==
    {"home", "get_products", "add_product", "update_product", "delete_product",
     "get_form", "generate_pdf", "view_history", "delete_history",
     "edit_quotation", "edit_pdf", "download_pdf"}

\* C5: a handler that reads or changes the catalog, the history log or a
\* document, called without a logged-in session, answers with a redirect to
\* login and leaves the catalog, the log and the stored files as they were.
C5_NoSessionRedirectsToLogin ==
    [][(/\ resp'.op \in GatedOps
        /\ session[resp'.client] = NoSession)
       => (/\ resp'.status = "redirect_login"
           /\ products' = products
           /\ hfile' = hfile
           /\ files' = files)]_vars

\* the history file is missing, is not JSON, or is JSON but no list of records
NotAListOfRecords(hf) ==
    \/ hf.kind # "list"
    \/ \E i \in DOMAIN hf.items : ~hf.items[i].isdict

HistoryReaders ==
    {"view_history", "edit_quotation", "edit_pdf", "delete_history",
     "download_pdf", "generate_pdf"}

\* C3: whenever the history file is missing, unparseable or not a list of
\* records, no handler that reads it raises an error, and view_history of a
\* logged-in user returns the empty list.
C3_CorruptFileReadsAsEmpty ==
    [][(/\ resp'.op \in HistoryReaders
        /\ NotAListOfRecords(hfile))
       => (/\ resp'.status # "error500"
           /\ (resp'.op = "view_history" /\ ~Falsy(session[resp'.client].user_id))
                => (resp'.status = "page" /\ resp'.history = <<>>))]_vars

\* what generate_pdf was given, read from the record it built
GenQuantity == [i \in DOMAIN resp.entry.data.quantity |-> resp.entry.data.quantity[i].v]
GenUnitPrice == [i \in DOMAIN resp.entry.data.unit_price |-> resp.entry.data.unit_price[i].v]
GenProductName == resp.entry.data.product_name
GenLoading == resp.entry.data.loading_charge.v
GenTransport == resp.entry.data.transportation_charge.v

Generated == resp.op = "generate_pdf" /\ resp.status = "page"

\* the sum of f[i] over i in 1..n
RECURSIVE SumOver(_, _)
SumOver(f, n) == IF n = 0 THEN 0 ELSE SumOver(f, n - 1) + f[n]

\* sum(qty * price), counted in 1/Unit^2 so that nothing is rounded
GenTotalScaled ==
    LET n == Min(Len(GenQuantity), Len(GenUnitPrice))
    IN  SumOver([i \in 1..n |-> GenQuantity[i] * GenUnitPrice[i]], n)

\* C8: total = sum(qty*price), sub_total = total + loading + transport,
\* grand_total = sub_total + 0.18*sub_total; final_total is grand_total
\* rounded to the nearest whole unit; round_off = final_total - grand_total
\* with its sign, so |round_off| <= 0.5; the record's total is final_total;
\* qty=[2], price=[50], no charges gives grand 118, final 118, round_off 0.
C8_TotalsAndRounding ==
    Generated =>
        LET c == resp.calc
        IN  /\ c.total_amount * Unit = GenTotalScaled
            /\ c.sub_total = c.total_amount + GenLoading + GenTransport
            /\ c.grand_total * 100 = c.sub_total * 118
            /\ 2 * Abs(c.final_total * Unit - c.grand_total) <= Unit
            /\ c.round_off = c.final_total * Unit - c.grand_total
            /\ 2 * Abs(c.round_off) <= Unit
            /\ resp.entry.total = PyInt(c.final_total)
            /\ LogItems[1].total = [lit |-> "integer", v |-> c.final_total]
            /\ (/\ GenQuantity = <<2 * Unit>>
                /\ GenUnitPrice = <<50 * Unit>>
                /\ GenLoading = 0
                /\ GenTransport = 0)
               => (/\ c.grand_total = 118 * Unit
                   /\ c.final_total = 118
                   /\ c.round_off = 0)

\* two lines (0.5 x 50 and 0.5 x 25) and both charges: sub_total 47.75,
\* grand_total 56.345 rounded down to 56, round_off -0.345
C8_Witness ==
    /\ Generated
    /\ Len(GenQuantity) = 2
    /\ GenLoading = Quarter
    /\ GenTransport = 10 * Unit
    /\ resp.calc.final_total = 56
    /\ resp.calc.round_off = 0 - 345

\* the same name but for the case of its letters
SameNameIgnoringCase(a, b) == StrUpper(a) = StrUpper(b)

\* the unit type of the first entry of the catalog named like p, <<>> if none
FirstMatchUnit(catalog, p) ==
    LET hits == {k \in DOMAIN catalog : SameNameIgnoringCase(catalog[k].name, p)}
    IN  IF hits = {} THEN <<>>
        ELSE catalog[CHOOSE k \in hits : \A j \in hits : k <= j].unit_type

\* the quantities of the lines whose unit type is in units, summed
BucketSum(units) ==
    LET n == Len(GenProductName)
    IN  SumOver([i \in 1..n |->
                    IF FirstMatchUnit(resp.catalog, GenProductName[i]) \in units
                    THEN GenQuantity[i] ELSE 0], n)

\* the catalog is the session user's rows, each once, with the unit type
\* stripped and in upper case
CatalogIsOfSessionUser ==
    LET user_id == session[resp.client].user_id
        own == {k \in DOMAIN products :
                   user_id.ty = "int" /\ products[k].user_id = user_id.v}
    IN  \E f \in [DOMAIN resp.catalog -> own] :
            /\ \A k \in own : \E i \in DOMAIN resp.catalog : f[i] = k
            /\ \A i, j \in DOMAIN resp.catalog : f[i] = f[j] => i = j
            /\ \A i \in DOMAIN resp.catalog :
                 /\ resp.catalog[i].name = products[f[i]].name
                 /\ resp.catalog[i].unit_type
                      = StrUpper(StrStrip(products[f[i]].unit_type))

\* C9: a line's unit type is that of the first catalog entry of the session
\* user with the line's product name, letter case ignored; its quantity goes
\* to total_weight for KG, to total_nos for NOS, NO, NOS., to total_pieces
\* for PCS, PIECE, PIECES, and to no total otherwise; catalog {Bolt: KG,
\* Plate: NOS} with (Bolt, 10), (Plate, 3) gives 10, 3 and 0.
C9_QuantityAggregation ==
    Generated =>
        /\ CatalogIsOfSessionUser
        /\ resp.calc.total_weight = BucketSum({sKG})
        /\ resp.calc.total_nos = BucketSum({sNOS, sNO, sNOSdot})
        /\ resp.calc.total_pieces = BucketSum({sPCS, sPIECE, sPIECES})
        /\ \A i \in DOMAIN resp.calc.rows :
             resp.calc.rows[i].unit = FirstMatchUnit(resp.catalog, GenProductName[i])
        /\ (/\ products = <<Row(1, sBolt, skg), Row(1, sPlate, sNos)>>
            /\ session[resp.client].user_id = PyInt(1)
            /\ GenProductName = <<sBolt, sPlate>>
            /\ GenQuantity = <<10 * Unit, 3 * Unit>>)
           => (/\ resp.calc.total_weight = 10 * Unit
               /\ resp.calc.total_nos = 3 * Unit
               /\ resp.calc.total_pieces = 0)

\* the catalog holds "bolt" in KG before "Bolt" in PCS; the lines Bolt and
\* Nut are quoted: Bolt is weighed, Nut is in no total
C9_Witness ==
    /\ Generated
    /\ Len(resp.catalog) = 2
    /\ resp.catalog[1].name = sbolt
    /\ resp.catalog[2].name = sBolt
    /\ GenProductName = <<sBolt, sNut>>
    /\ resp.calc.total_weight = Half
    /\ resp.calc.total_pieces = 0
    /\ resp.calc.total_nos = 0

LogSeqs == {LogItems[i].seq : i \in DOMAIN LogItems}

Quiet == \A w \in Workers : ~Busy(w)

C7_LostDelete ==
    /\ Quiet
    /\ Generated
    /\ \E s \in deleted : s \in LogSeqs

\* C11: with handlers run one at a time, the log is most-recent-first: a
\* record nearer the head of the log was created later than every record
\* after it, and right after generate_pdf the new record is at position 0
\* above the records that were there, in their order.
C11_MostRecentFirst ==
    /\ \A i, j \in DOMAIN LogItems : i < j => LogItems[i].seq > LogItems[j].seq
    /\ Generated => (LogItems # <<>> /\ LogItems[1].seq = nextSeq - 1)

\* three records were created, the middle one has been deleted and one of
\* the two that remain has been annotated by a download
C11_Witness ==
    /\ Len(LogItems) = 2
    /\ deleted = {2}
    /\ resp.op = "download_pdf"
    /\ resp.status = "file"
    /\ \E i \in DOMAIN LogItems : LogItems[i].last_downloaded >= 0

\* the summary band of the last generated page: its parts in the order
\* drawn, none when the band is not drawn
GenSummary == resp.calc.summary

\* the band that shows the weight, the nos and the pieces when told to
BandOf(showWeight, showNos, showPieces) ==
    (IF showWeight
     THEN <<[label |-> "Total Weight", value |-> Fmt3(resp.calc.total_weight)]>>
     ELSE <<>>)
    \o (IF showNos
        THEN <<[label |-> "Total Nos", value |-> Fmt0(resp.calc.total_nos)]>>
        ELSE <<>>)
    \o (IF showPieces
        THEN <<[label |-> "Total Pieces", value |-> Fmt0(resp.calc.total_pieces)]>>
        ELSE <<>>)

\* C12 as stated: the summary band is drawn exactly when one of
\* total_weight, total_nos, total_pieces is not zero, and it joins exactly
\* the buckets that are not zero, in the order weight, nos, pieces, whatever
\* the sign of the quantities.
C12_BandJoinsNonZeroBuckets ==
    Generated =>
        /\ (GenSummary # <<>>) <=> (\/ resp.calc.total_weight # 0
                                    \/ resp.calc.total_nos # 0
                                    \/ resp.calc.total_pieces # 0)
        /\ GenSummary = BandOf(resp.calc.total_weight # 0,
                               resp.calc.total_nos # 0,
                               resp.calc.total_pieces # 0)

\* C12, amended: the summary band is drawn exactly when one of total_weight,
\* total_nos, total_pieces is greater than zero, and it joins exactly the
\* buckets greater than zero, in the order weight, nos, pieces; a bucket
\* that is zero or negative is left out.
C12_BandJoinsPositiveBuckets ==
    Generated =>
        /\ (GenSummary # <<>>) <=> (\/ resp.calc.total_weight > 0
                                    \/ resp.calc.total_nos > 0
                                    \/ resp.calc.total_pieces > 0)
        /\ GenSummary = BandOf(resp.calc.total_weight > 0,
                               resp.calc.total_nos > 0,
                               resp.calc.total_pieces > 0)

\* a page whose weight total is negative and whose nos total is positive:
\* the band is drawn with the nos alone
C12_Witness ==
    /\ Generated
    /\ resp.calc.total_weight < 0
    /\ resp.calc.total_nos > 0
    /\ Len(GenSummary) = 1

\* C13 as stated: the totals panel's sub-total line shows
\* sub_total = total_amount + loading_charge + transportation_charge, the
\* sum the 18% GST is computed on, whatever the lines and charges.
C13_SubTotalLineShowsSubTotal ==
    Generated =>
        resp.calc.sub_total_line
          = Fmt2(GenTotalScaled \div Unit + GenLoading + GenTransport)

\* C13, amended: the sub-total line shows total_amount, the sum of
\* qty*price of the line items without the charges; the loading and the
\* transportation charge are shown on their own lines below it, the GST
\* line is 18% of total_amount plus both charges, and the lines add up:
\* sub-total + loading + transportation + GST + round-off = grand total.
\* The line equals sub_total when both charges add up to zero.
C13_SubTotalLineShowsItemsTotal ==
    Generated =>
        LET c == resp.calc
        IN  /\ c.sub_total_line = Fmt2(GenTotalScaled \div Unit)
            /\ c.loading_line = Fmt2(GenLoading)
            /\ c.transport_line = Fmt2(GenTransport)
            /\ c.gst_line = Fmt2(c.gst_amount)
            /\ c.gst_amount * 100
                 = (GenTotalScaled \div Unit + GenLoading + GenTransport) * 18
            /\ GenTotalScaled \div Unit + GenLoading + GenTransport
                 + c.gst_amount + c.round_off = c.final_total * Unit
            /\ (GenLoading + GenTransport = 0)
                 => c.sub_total_line = Fmt2(c.sub_total)

\* a page with both charges: the sub-total line shows 37.50 while the GST
\* is computed on 47.75
C13_Witness ==
    /\ Generated
    /\ GenLoading = Quarter
    /\ GenTransport = 10 * Unit
    /\ resp.calc.sub_total_line = 3750
    /\ resp.calc.sub_total = 47 * Unit + 3 * Quarter

GenBilled == Min(Len(GenQuantity), Len(GenUnitPrice))

\* C15: a request whose product_name, description, quantity and unit_price
\* differ in length is rejected or coerced, so that on every generated page
\* the line items summed into total_amount are exactly the line items drawn
\* as table rows and counted in the aggregates: none is billed unlisted.
C15_BilledItemsAreListed ==
    Generated =>
        LET n == Len(resp.calc.rows)
        IN  /\ n = GenBilled
            /\ resp.calc.total_amount * Unit
                 = SumOver([i \in 1..n |-> GenQuantity[i] * GenUnitPrice[i]], n)

====
